---- MODULE Spec2Model ----
(***************************************************************************)
(* Payment posting of the payment-collection backend.                      *)
(*                                                                         *)
(* Payment.create (models/Payment.js) runs one InnoDB transaction per      *)
(* posting: INSERT payments, UPDATE customers SET outstanding_balance =    *)
(* outstanding_balance - ?, UPDATE payment_schedule ... LIMIT 1, COMMIT.   *)
(* PaymentService.processPayment looks the customer up, checks the amount  *)
(* against the balance it read and then calls Payment.create; the route    *)
(* POST /api/payments wraps it and maps errors to HTTP statuses.           *)
(*                                                                         *)
(* Every await of the JavaScript code is one step of a request: the        *)
(* database performs the statement and the continuation runs up to the     *)
(* next await.  Money is in integer cents (the columns are DECIMAL(n,2)).  *)
(* The committed tables are payments, outstanding_balance and schedule;    *)
(* the changes of an open transaction live in tx[p] (an autocommit reader  *)
(* of another connection sees committed rows only) and are installed by    *)
(* COMMIT.  Row locks follow InnoDB: the foreign-key check of the INSERT   *)
(* takes a shared lock on the parent customers row, the UPDATE of that row *)
(* an exclusive one, both held to the end of the transaction.              *)
(*                                                                         *)
(* The list routes (GET /api/payments, GET /api/payments/:account_number,  *)
(* GET /api/customers) parse page and limit, run their row query and their *)
(* count query as separate statements and report the pagination; POST      *)
(* /api/customers is one INSERT guarded by the UNIQUE indexes.             *)
(***************************************************************************)
EXTENDS Integers, FiniteSets, Sequences, TLC

\* ---- bounds of the model ------------------------------------------------
NProcs == 2          \* requests in flight
MaxAmount == 2       \* largest payment_amount, in cents
MaxRef == 2          \* distinct values of PAY-<ms>-<8 hex>
MaxRequests == 2     \* processPayment calls of one screen the model follows

\* ---- program constants --------------------------------------------------
PoolSize == 10       \* connectionLimit
NoCust == 99999      \* a customer_id no customers row has
MinAmount == 1       \* isFloat({ min: 0.01 }), in cents

Procs == 1..NProcs
CustomerIds == {1, 2}
RefIds == 1..MaxRef
SchedIds == {1, 2}          \* payment_schedule rows, both of customer 1
Methods == {"CARD"}        \* methods a caller submits; "UPI" is the default
NoMethod == "undefined"
UnknownAccount == "INVALID"
NoAccount == ""             \* account_number missing from the body (or blank)
NoAmount == -2              \* payment_amount missing from the body
Null == [id |-> 0]
NoRow == [payment_reference_id |-> 0]

VARIABLES
    pc,                   \* where each request stands
    req,                  \* the request body / the direct call's paymentData
    arg,                  \* paymentData handed to Payment.create
    tx,                   \* uncommitted changes of each connection's transaction
    payments,             \* committed rows of payments
    outstanding_balance,  \* committed customers.outstanding_balance, by id
    schedule,             \* committed rows of payment_schedule, by id
    slock,                \* shared record locks on customers rows
    xlock,                \* exclusive record lock on customers rows (0: none)
    held,                 \* requests holding a pool connection
    customers,            \* committed rows of customers: id, account_number, status
    res,                  \* what the request returned / responded
    screen                \* one PaymentFormScreen: its state and its requests

vars == <<pc, req, arg, tx, payments, outstanding_balance, schedule,
          slock, xlock, held, customers, res, screen>>

\* ---- customers table ----------------------------------------------------
account_number(c) == IF c = 1 THEN "ACC001" ELSE "ACC002"

Accounts == {account_number(c) : c \in CustomerIds}

\* the account number of customer 1 as a client may type it
LowerCased == "acc001"

\* COLLATE=utf8mb4_unicode_ci: strings are compared by their weights, which
\* do not tell the letter case apart ('acc001' = 'ACC001' is true)
Collate(acc) == IF acc = LowerCased THEN "ACC001" ELSE acc

\* outstanding_balance of the customers rows at the start
InitialBalance(c) == MaxAmount

\* payment_schedule.customer_id
SchedOwner(s) == 1

\* Customer.findByAccountNumber: SELECT * FROM customers WHERE account_number
\* = ?; rows[0] || null
findByAccountNumber(acc) ==
    IF \E c \in CustomerIds : Collate(account_number(c)) = Collate(acc)
    THEN LET c == CHOOSE c \in CustomerIds :
                      Collate(account_number(c)) = Collate(acc)
         IN  [id |-> c, outstanding_balance |-> outstanding_balance[c]]
    ELSE Null

\* Payment.findByReferenceId: rows[0] || null
findByReferenceId(ref) ==
    IF \E r \in payments : r.payment_reference_id = ref
    THEN CHOOSE r \in payments : r.payment_reference_id = ref
    ELSE NoRow

\* ---- pieces of Payment.create --------------------------------------------
\* payment_method = 'UPI' (destructuring default) and payment_method || 'UPI'
DefaultMethod(m) == IF m = NoMethod THEN "UPI" ELSE m

\* the status column left to its default, 'PENDING'
NewPaymentRow_DefaultStatus(ref, a) ==
    [payment_reference_id |-> ref,
     customer_id          |-> a.customer_id,
     account_number       |-> a.account_number,
     payment_amount       |-> a.payment_amount,
     status               |-> "PENDING",
     payment_method       |-> IF a.payment_method = NoMethod THEN "UPI"
                              ELSE a.payment_method]

\* VALUES (?, ?, ?, ?, ?, 'SUCCESS', ?, ?, ?)
NewPaymentRow(ref, a) ==
    [payment_reference_id |-> ref,
     customer_id          |-> a.customer_id,
     account_number       |-> a.account_number,
     payment_amount       |-> a.payment_amount,
     status               |-> "SUCCESS",
     payment_method       |-> DefaultMethod(a.payment_method)]

\* the amount added instead of subtracted
NewBalance_Added(old, amount) == old + amount

\* SET outstanding_balance = outstanding_balance - ?
NewBalance(old, amount) == old - amount

\* no unique index on payment_reference_id
DuplicateReference_NoIndex(ref) == FALSE

\* payments.payment_reference_id UNIQUE: a committed row has the reference
DuplicateReference(ref) == \E r \in payments : r.payment_reference_id = ref

\* references inserted by other transactions that are still open: an INSERT
\* of the same reference waits for that transaction to end
UncommittedRefs(p) ==
    {tx[q].pay.payment_reference_id : q \in {q \in Procs : q # p /\ tx[q].pay # NoRow}}

\* WHERE id = ? finds a customers row
HasCustomerRow(c) == c \in CustomerIds

\* no foreign key from payments to customers
CustomerExists_Unchecked(c) == TRUE

\* FOREIGN KEY (customer_id) REFERENCES customers(id): the parent row is there
CustomerExists(c) == HasCustomerRow(c)

\* shared lock of the foreign-key check: granted unless another transaction
\* holds the row exclusively
CanLockS(p, c) == xlock[c] \in {0, p}

\* the balance written from a value read earlier, without a lock on the row
CanLockX_Unlocked(p, c) == TRUE

\* exclusive lock of UPDATE customers ... WHERE id = ?: granted when nobody
\* else holds the row, shared or exclusive
CanLockX(p, c) == xlock[c] \in {0, p} /\ slock[c] \subseteq {p}

\* WHERE status = 'PENDING' alone: entries of any customer are taken
PendingEntries_AnyCustomer(c) == {s \in SchedIds : schedule[s].status = "PENDING"}

\* WHERE customer_id = ? alone: entries already PAID are taken too
PendingEntries_AnyStatus(c) == {s \in SchedIds : SchedOwner(s) = c}

\* WHERE customer_id = ? AND status = 'PENDING'
PendingEntries(c) ==
    {s \in SchedIds : SchedOwner(s) = c /\ schedule[s].status = "PENDING"}

NoTx == [pay |-> NoRow, upd |-> FALSE, bal |-> 0, sched |-> 0, paid |-> 0]

NoRes == [create |-> "none", cause |-> "none", returned |-> "none",
          status |-> 0, success |-> FALSE, ref |-> 0, read |-> FALSE, seen |-> 0,
          balance |-> 0]

NoArg == [customer_id |-> 0, account_number |-> "", payment_amount |-> 0,
          payment_method |-> NoMethod]

\* the committed tables after COMMIT: the transaction's changes are installed
Committed(p) ==
    LET c == arg[p].customer_id
        s == tx[p].sched
    IN  [payments |-> IF tx[p].pay = NoRow THEN payments
                      ELSE payments \cup {tx[p].pay},
         outstanding_balance |->
             IF ~tx[p].upd THEN outstanding_balance
             ELSE [outstanding_balance EXCEPT ![c] = tx[p].bal],
         schedule |-> IF s = 0 THEN schedule
                      ELSE [schedule EXCEPT ![s] =
                               [status |-> "PAID", paid_amount |-> tx[p].paid]]]

\* a rollback that keeps the statements already executed (no transaction open)
RolledBack_KeepsStatements(p) == Committed(p)

\* the committed tables after ROLLBACK: nothing of the transaction is kept
RolledBack(p) ==
    [payments |-> payments, outstanding_balance |-> outstanding_balance,
     schedule |-> schedule]

\* the row locks outlive the transaction
Unlock_Keep(p) == UNCHANGED <<slock, xlock>>

\* the locks of a transaction go when it ends
Unlock(p) ==
    /\ slock' = [c \in CustomerIds |-> slock[c] \ {p}]
    /\ xlock' = [c \in CustomerIds |-> IF xlock[c] = p THEN 0 ELSE xlock[c]]

\* the steps of Payment.create between pool.getConnection() and conn.release()
Holding == {"begin", "insert", "balance", "schedule", "commit", "rollback"}

\* the connection never handed back to the pool
Release_Leaked(p) == held

\* finally { conn.release() }: the connection goes back to the pool
Release(p) == held \ {p}

\* error.status ignored
ErrorStatus_Always500(status) == 500

\* const status = error.status || 500
ErrorStatus(status) == IF status = 0 THEN 500 ELSE status

IsPost(p) == req[p].kind = "post"

\* the amount never compared with the balance
ExceedsBalance_Never(amount, balance) == FALSE

\* paymentData.payment_amount > customer.outstanding_balance
ExceedsBalance(amount, balance) == amount > balance

\* ---- customers rows -------------------------------------------------------
NoEmail == "null"
email(c) == IF c = 1 THEN "rahul@example.com" ELSE "priya@example.com"

\* the status column left out of the INSERT
CustomerRow_NoStatus(id, acc, mail) ==
    [id |-> id, account_number |-> acc, email |-> mail, status |-> "NULL"]

\* INSERT INTO customers (...) VALUES (?, ?, ?, ?, ?, ?, ?, ?, ?, ?, 'ACTIVE')
CustomerRow(id, acc, mail) ==
    [id |-> id, account_number |-> acc, email |-> mail, status |-> "ACTIVE"]

\* the request reaches the handler whatever the body holds
ValidationFails_Never(acc, amount) == FALSE

\* validatePayment: account_number trimmed and notEmpty, payment_amount
\* isFloat({ min: 0.01 }); handleValidationErrors answers 400 on any error
ValidationFails(acc, amount) ==
    \/ acc = NoAccount
    \/ amount = NoAmount
    \/ amount < MinAmount

\* account numbers a body can carry: a customer's as stored or in lower case,
\* an unknown one, or none
BodyAccounts == Accounts \cup {LowerCased, UnknownAccount, NoAccount}

\* useState(...) of PaymentFormScreen at mount: formData, loading,
\* showSuccessModal, successData; disabled is the prop of the submit control
\* as last rendered, toast the last showToast, requests the processPayment
\* calls that have neither resolved nor rejected
NoScreen ==
    [formData |-> [payment_amount |-> NoAmount, payment_method |-> "UPI"],
     loading |-> FALSE, disabled |-> FALSE, showSuccessModal |-> FALSE,
     successData |-> Null, toast |-> "none", requests |-> <<>>]

\* amounts a body can carry: none, negative, zero, or valid
BodyAmounts == {NoAmount} \cup (-1..MaxAmount)

Init ==
    /\ pc = [p \in Procs |-> "idle"]
    /\ req = [p \in Procs |-> [kind |-> "none", account_number |-> "",
                               payment_amount |-> 0, payment_method |-> NoMethod]]
    /\ arg = [p \in Procs |-> NoArg]
    /\ tx = [p \in Procs |-> NoTx]
    /\ payments = {}
    /\ outstanding_balance = [c \in CustomerIds |-> InitialBalance(c)]
    /\ schedule = [s \in SchedIds |-> [status |-> "PENDING", paid_amount |-> 0]]
    /\ slock = [c \in CustomerIds |-> {}]
    /\ xlock = [c \in CustomerIds |-> 0]
    /\ held = {}
    /\ screen = NoScreen
    /\ customers = {CustomerRow(c, account_number(c), email(c)) : c \in CustomerIds}
    /\ res = [p \in Procs |-> NoRes]

\* payment_method is carried into the row and decides nothing: the first
\* request submits any method or none, the later ones none
SubmittedMethods(p) == IF p = 1 THEN Methods \cup {NoMethod} ELSE {NoMethod}

\* requests are told apart by their number only, so they start in order
MayStart(p) == pc[p] = "idle" /\ (IF p = 1 THEN TRUE ELSE pc[p - 1] # "idle")

\* a test or another caller invokes Payment.create(paymentData) directly
InvokeCreate(p) ==
    /\ MayStart(p)
    /\ \E c \in CustomerIds \cup {NoCust}, a \in MinAmount..MaxAmount,
          m \in SubmittedMethods(p) :
         LET acc == IF HasCustomerRow(c) THEN account_number(c) ELSE UnknownAccount
         IN  /\ req' = [req EXCEPT ![p] = [kind |-> "create", account_number |-> acc,
                                           payment_amount |-> a, payment_method |-> m]]
             /\ arg' = [arg EXCEPT ![p] = [customer_id |-> c, account_number |-> acc,
                                           payment_amount |-> a, payment_method |-> m]]
    /\ pc' = [pc EXCEPT ![p] = "getconn"]
    /\ UNCHANGED <<screen, customers, tx, payments, outstanding_balance, schedule,
                   slock, xlock, held, res>>

\* POST /api/payments: validatePayment, then the handler calls processPayment
InvokePost(p) ==
    /\ MayStart(p)
    /\ \E acc \in BodyAccounts, a \in BodyAmounts,
          m \in SubmittedMethods(p) :
         /\ req' = [req EXCEPT ![p] = [kind |-> "post", account_number |-> acc,
                                       payment_amount |-> a, payment_method |-> m]]
         /\ IF ValidationFails(acc, a)
            THEN /\ pc' = [pc EXCEPT ![p] = "done"]
                 /\ res' = [res EXCEPT ![p] = [NoRes EXCEPT !.status = 400]]
            ELSE /\ pc' = [pc EXCEPT ![p] = "lookup"]
                 /\ res' = res
    /\ UNCHANGED <<screen, customers, arg, tx, payments, outstanding_balance, schedule,
                   slock, xlock, held>>

\* processPayment: findByAccountNumber answers, the checks run, Payment.create
\* is called
Lookup(p) ==
    /\ pc[p] = "lookup"
    /\ LET customer == findByAccountNumber(req[p].account_number)
           amount == req[p].payment_amount
       IN  IF customer = Null
           THEN /\ res' = [res EXCEPT ![p] = [NoRes EXCEPT !.status = ErrorStatus(404)]]
                /\ pc' = [pc EXCEPT ![p] = "done"]
                /\ arg' = arg
           ELSE IF amount <= 0
           THEN /\ res' = [res EXCEPT ![p] = [NoRes EXCEPT !.status = ErrorStatus(400)]]
                /\ pc' = [pc EXCEPT ![p] = "done"]
                /\ arg' = arg
           ELSE IF ExceedsBalance(amount, customer.outstanding_balance)
           THEN /\ res' = [res EXCEPT ![p] =
                              [NoRes EXCEPT !.status = ErrorStatus(400), !.read = TRUE,
                                            !.seen = customer.outstanding_balance]]
                /\ pc' = [pc EXCEPT ![p] = "done"]
                /\ arg' = arg
           ELSE /\ res' = [res EXCEPT ![p] =
                              [NoRes EXCEPT !.read = TRUE,
                                            !.seen = customer.outstanding_balance]]
                /\ pc' = [pc EXCEPT ![p] = "getconn"]
                /\ arg' = [arg EXCEPT ![p] =
                              [customer_id |-> customer.id,
                               account_number |-> req[p].account_number,
                               payment_amount |-> amount,
                               payment_method |-> DefaultMethod(req[p].payment_method)]]
    /\ UNCHANGED <<screen, customers, req, tx, payments, outstanding_balance, schedule,
                   slock, xlock, held>>

\* a pool that opens a connection for every caller
PoolHasRoom_Unbounded == TRUE

\* connectionLimit: 10: the pool opens no more than 10 connections
PoolHasRoom == Cardinality(held) < PoolSize

\* const conn = await pool.getConnection(); with waitForConnections: true and
\* queueLimit: 0 a caller that finds every connection in use is queued
GetConnection(p) ==
    /\ pc[p] = "getconn"
    /\ PoolHasRoom
    /\ held' = held \cup {p}
    /\ pc' = [pc EXCEPT ![p] = "begin"]
    /\ UNCHANGED <<screen, customers, req, arg, tx, payments, outstanding_balance,
                   schedule, slock, xlock, res>>

\* await conn.beginTransaction()
BeginTransaction(p) ==
    /\ pc[p] = "begin"
    /\ pc' = [pc EXCEPT ![p] = "insert"]
    /\ UNCHANGED <<screen, customers, req, arg, tx, payments, outstanding_balance,
                   schedule, slock, xlock, held, res>>

\* a duplicate reference answered by a new reference and a new INSERT
CatchTarget_RetryDuplicate(cause) == IF cause = "dup" THEN "insert" ELSE "rollback"

\* catch (error) { await conn.rollback(); throw ... }: whatever failed, the
\* next statement is the ROLLBACK
CatchTarget(cause) == "rollback"

\* a statement failed with `cause`: control goes to catch
Caught(p, cause) ==
    /\ pc' = [pc EXCEPT ![p] = CatchTarget(cause)]
    /\ res' = [res EXCEPT ![p].cause = cause]

\* payment_reference_id = PAY-<Date.now()>-<uuid prefix>; INSERT INTO payments
InsertPayment(p) ==
    /\ pc[p] = "insert"
    /\ \E ref \in RefIds \ UncommittedRefs(p) :
         LET c == arg[p].customer_id
         IN  IF DuplicateReference(ref)
             THEN /\ Caught(p, "dup")
                  /\ UNCHANGED <<tx, slock>>
             ELSE IF ~CustomerExists(c)
             THEN /\ Caught(p, "fk")
                  /\ UNCHANGED <<tx, slock>>
             ELSE /\ HasCustomerRow(c) => CanLockS(p, c)
                  /\ slock' = IF HasCustomerRow(c)
                              THEN [slock EXCEPT ![c] = @ \cup {p}]
                              ELSE slock
                  /\ tx' = [tx EXCEPT ![p].pay = NewPaymentRow(ref, arg[p])]
                  /\ pc' = [pc EXCEPT ![p] = "balance"]
                  /\ res' = res
    /\ UNCHANGED <<screen, customers, req, arg, payments, outstanding_balance,
                   schedule, xlock, held>>

\* UPDATE customers SET outstanding_balance = outstanding_balance - ? WHERE id = ?
UpdateBalance(p) ==
    /\ pc[p] = "balance"
    /\ LET c == arg[p].customer_id
       IN  IF HasCustomerRow(c)
           THEN /\ CanLockX(p, c)
                /\ xlock' = [xlock EXCEPT ![c] = p]
                /\ tx' = [tx EXCEPT ![p].upd = TRUE, ![p].bal =
                             NewBalance(outstanding_balance[c], arg[p].payment_amount)]
           ELSE UNCHANGED <<xlock, tx>>
    /\ pc' = [pc EXCEPT ![p] = "schedule"]
    /\ UNCHANGED <<screen, customers, req, arg, payments, outstanding_balance,
                   schedule, slock, held, res>>

\* two transactions hold the shared lock of their INSERT on one customers row
\* and both ask for the exclusive lock: InnoDB rolls one of them back and its
\* UPDATE fails (ER_LOCK_DEADLOCK)
Deadlock(p) ==
    /\ pc[p] = "balance"
    /\ LET c == arg[p].customer_id
       IN  /\ HasCustomerRow(c)
           /\ p \in slock[c]
           /\ \E q \in Procs \ {p} :
                pc[q] = "balance" /\ arg[q].customer_id = c /\ q \in slock[c]
    /\ Unlock(p)
    /\ tx' = [tx EXCEPT ![p] = NoTx]
    /\ Caught(p, "deadlock")
    /\ UNCHANGED <<screen, customers, req, arg, payments, outstanding_balance,
                   schedule, held>>

\* UPDATE payment_schedule SET paid_amount = paid_amount + ?, status = 'PAID'
\* WHERE customer_id = ? AND status = 'PENDING' LIMIT 1
UpdateSchedule(p) ==
    /\ pc[p] = "schedule"
    /\ LET pending == PendingEntries(arg[p].customer_id)
       IN  IF pending = {}
           THEN tx' = tx
           ELSE \E s \in pending :
                  tx' = [tx EXCEPT ![p].sched = s,
                                   ![p].paid = schedule[s].paid_amount
                                               + arg[p].payment_amount]
    /\ pc' = [pc EXCEPT ![p] = "commit"]
    /\ UNCHANGED <<screen, customers, req, arg, payments, outstanding_balance,
                   schedule, slock, xlock, held, res>>

\* await conn.commit(); return { id, payment_reference_id, ..., status:
\* 'SUCCESS', ... }; finally conn.release()
Commit(p) ==
    /\ pc[p] = "commit"
    /\ LET db == Committed(p)
       IN  /\ payments' = db.payments
           /\ outstanding_balance' = db.outstanding_balance
           /\ schedule' = db.schedule
    /\ Unlock(p)
    /\ held' = Release(p)
    /\ res' = [res EXCEPT ![p].create = "ok",
                          ![p].ref = tx[p].pay.payment_reference_id,
                          ![p].returned = "SUCCESS"]
    /\ tx' = [tx EXCEPT ![p] = NoTx]
    /\ pc' = [pc EXCEPT ![p] = IF IsPost(p) THEN "refetch" ELSE "done"]
    /\ UNCHANGED <<screen, customers, req, arg>>

\* catch: await conn.rollback(); throw new Error(...); finally conn.release();
\* the route answers error.status || 500
Rollback(p) ==
    /\ pc[p] = "rollback"
    /\ LET db == RolledBack(p)
       IN  /\ payments' = db.payments
           /\ outstanding_balance' = db.outstanding_balance
           /\ schedule' = db.schedule
    /\ Unlock(p)
    /\ held' = Release(p)
    /\ res' = [res EXCEPT ![p].create = "threw",
                          ![p].status = IF IsPost(p) THEN ErrorStatus(0) ELSE 0]
    /\ tx' = [tx EXCEPT ![p] = NoTx]
    /\ pc' = [pc EXCEPT ![p] = "done"]
    /\ UNCHANGED <<screen, customers, req, arg>>

\* processPayment: Customer.findById answers; the route sends 201
FindById(p) ==
    /\ pc[p] = "refetch"
    /\ res' = [res EXCEPT ![p].status = 201, ![p].success = TRUE,
                          ![p].balance = outstanding_balance[arg[p].customer_id]]
    /\ pc' = [pc EXCEPT ![p] = "done"]
    /\ UNCHANGED <<screen, customers, req, arg, tx, payments, outstanding_balance,
                   schedule, slock, xlock, held>>

\* a statement of the transaction (BEGIN, INSERT, either UPDATE, COMMIT) fails in
\* the database: lock wait timeout, lost connection, constraint error
StorageError(p) ==
    /\ pc[p] \in {"begin", "insert", "balance", "schedule", "commit"}
    /\ Caught(p, IF pc[p] = "commit" THEN "commit" ELSE "storage")
    /\ UNCHANGED <<screen, customers, req, arg, tx, payments, outstanding_balance,
                   schedule, slock, xlock, held>>

\* pool.getConnection() rejects: it is outside the try, nothing to roll back
GetConnectionError(p) ==
    /\ pc[p] = "getconn"
    /\ res' = [res EXCEPT ![p].create = "threw", ![p].cause = "getconn",
                          ![p].status = IF IsPost(p) THEN ErrorStatus(0) ELSE 0]
    /\ pc' = [pc EXCEPT ![p] = "done"]
    /\ UNCHANGED <<screen, customers, req, arg, tx, payments, outstanding_balance,
                   schedule, slock, xlock, held>>

\* conn.rollback() rejects (the connection is gone): the server drops the open
\* transaction, finally releases the connection, the rollback's error is thrown
RollbackError(p) ==
    /\ pc[p] = "rollback"
    /\ Unlock(p)
    /\ held' = Release(p)
    /\ res' = [res EXCEPT ![p].create = "threw",
                          ![p].status = IF IsPost(p) THEN ErrorStatus(0) ELSE 0]
    /\ tx' = [tx EXCEPT ![p] = NoTx]
    /\ pc' = [pc EXCEPT ![p] = "done"]
    /\ UNCHANGED <<screen, customers, req, arg, payments, outstanding_balance,
                   schedule>>

\* Customer.findByAccountNumber / Customer.findById rejects: an Error without
\* status reaches the route
QueryError(p) ==
    /\ pc[p] \in {"lookup", "refetch"}
    /\ res' = [res EXCEPT ![p].status = ErrorStatus(0), ![p].cause = "query"]
    /\ pc' = [pc EXCEPT ![p] = "done"]
    /\ UNCHANGED <<screen, customers, req, arg, tx, payments, outstanding_balance,
                   schedule, slock, xlock, held>>

\* the awaits of Payment.create
Transaction(p) ==
    \/ GetConnection(p)
    \/ BeginTransaction(p)
    \/ InsertPayment(p)
    \/ UpdateBalance(p)
    \/ Deadlock(p)
    \/ UpdateSchedule(p)
    \/ Commit(p)
    \/ Rollback(p)

TransactionFault(p) ==
    \/ StorageError(p)
    \/ GetConnectionError(p)
    \/ RollbackError(p)

\* callers of Payment.create
Next == \E p \in Procs : InvokeCreate(p) \/ Transaction(p) \/ TransactionFault(p)

Spec == Init /\ [][Next]_vars

\* the database answers every statement (with a result or with an error) and
\* the pool serves its queue: no await of Payment.create is left pending for
\* ever once it can be answered
SpecFair == Spec /\ \A p \in Procs : WF_vars(Transaction(p))

\* requests to POST /api/payments
NextPost ==
    \E p \in Procs :
        \/ InvokePost(p)
        \/ Lookup(p)
        \/ Transaction(p)
        \/ FindById(p)
        \/ TransactionFault(p)
        \/ QueryError(p)

SpecPost == Init /\ [][NextPost]_vars

\* NProcs postings of one amount for one customer whose balance covers them all
InvokeConcurrent(p) ==
    /\ MayStart(p)
    /\ \E c \in CustomerIds, a \in MinAmount..MaxAmount, m \in SubmittedMethods(p) :
         /\ NProcs * a <= InitialBalance(c)
         /\ p # 1 => c = arg[1].customer_id /\ a = arg[1].payment_amount
         /\ req' = [req EXCEPT ![p] = [kind |-> "create",
                                       account_number |-> account_number(c),
                                       payment_amount |-> a, payment_method |-> m]]
         /\ arg' = [arg EXCEPT ![p] = [customer_id |-> c,
                                       account_number |-> account_number(c),
                                       payment_amount |-> a, payment_method |-> m]]
    /\ pc' = [pc EXCEPT ![p] = "getconn"]
    /\ UNCHANGED <<screen, customers, tx, payments, outstanding_balance, schedule,
                   slock, xlock, held, res>>

NextConcurrent == \E p \in Procs : InvokeConcurrent(p) \/ Transaction(p)

\* concurrent postings against one customer, no storage error
SpecConcurrent == Init /\ [][NextConcurrent]_vars

\* the first posting is for a customer that exists, the others for customer_id
\* 99999
InvokeIsolated(p) ==
    /\ MayStart(p)
    /\ \E c \in (IF p = 1 THEN CustomerIds ELSE {NoCust}),
          a \in MinAmount..MaxAmount, m \in SubmittedMethods(p) :
         LET acc == IF HasCustomerRow(c) THEN account_number(c) ELSE UnknownAccount
         IN  /\ req' = [req EXCEPT ![p] = [kind |-> "create", account_number |-> acc,
                                           payment_amount |-> a, payment_method |-> m]]
             /\ arg' = [arg EXCEPT ![p] = [customer_id |-> c, account_number |-> acc,
                                           payment_amount |-> a, payment_method |-> m]]
    /\ pc' = [pc EXCEPT ![p] = "getconn"]
    /\ UNCHANGED <<screen, customers, tx, payments, outstanding_balance, schedule,
                   slock, xlock, held, res>>

NextIsolated ==
    \E p \in Procs :
        \/ InvokeIsolated(p)
        \/ GetConnection(p)
        \/ BeginTransaction(p)
        \/ InsertPayment(p)
        \/ UpdateBalance(p)
        \/ UpdateSchedule(p)
        \/ Commit(p)
        \/ Rollback(p)

\* failing postings next to one posting that can succeed, no storage error
SpecIsolated == Init /\ [][NextIsolated]_vars

\* ---- more postings than the pool has connections ---------------------------
PoolProcs == 1..(PoolSize + 1)

InitPool ==
    /\ pc = [p \in PoolProcs |-> "idle"]
    /\ req = [p \in PoolProcs |-> [kind |-> "none", account_number |-> "",
                                   payment_amount |-> 0, payment_method |-> NoMethod]]
    /\ arg = [p \in PoolProcs |-> NoArg]
    /\ tx = [p \in PoolProcs |-> NoTx]
    /\ payments = {}
    /\ outstanding_balance = [c \in CustomerIds |-> InitialBalance(c)]
    /\ schedule = [s \in SchedIds |-> [status |-> "PENDING", paid_amount |-> 0]]
    /\ slock = [c \in CustomerIds |-> {}]
    /\ xlock = [c \in CustomerIds |-> 0]
    /\ held = {}
    /\ screen = NoScreen
    /\ customers = {CustomerRow(c, account_number(c), email(c)) : c \in CustomerIds}
    /\ res = [p \in PoolProcs |-> NoRes]

\* every posting is Payment.create({ customer_id: 99999, payment_amount: 0.01 })
InvokePool(p) ==
    /\ MayStart(p)
    /\ req' = [req EXCEPT ![p] = [kind |-> "create", account_number |-> UnknownAccount,
                                  payment_amount |-> MinAmount,
                                  payment_method |-> NoMethod]]
    /\ arg' = [arg EXCEPT ![p] = [customer_id |-> NoCust,
                                  account_number |-> UnknownAccount,
                                  payment_amount |-> MinAmount,
                                  payment_method |-> NoMethod]]
    /\ pc' = [pc EXCEPT ![p] = "getconn"]
    /\ UNCHANGED <<screen, customers, tx, payments, outstanding_balance, schedule,
                   slock, xlock, held, res>>

\* the postings are the same call and are told apart by their number only, so
\* of two postings at the same step the one with the lower number moves first
InTurn(p) ==
    IF p = 1 THEN TRUE
    ELSE \/ pc[p - 1] = "done"
         \/ pc[p - 1] \in Holding /\ pc[p] = "getconn"
         \/ pc[p - 1] \in {"insert", "rollback"} /\ pc[p] = "begin"
         \/ pc[p - 1] = "rollback" /\ pc[p] = "insert"

PoolTransaction(p) ==
    /\ InTurn(p)
    /\ \/ GetConnection(p)
       \/ BeginTransaction(p)
       \/ InsertPayment(p)
       \/ Rollback(p)

NextPool == \E p \in PoolProcs : InvokePool(p) \/ PoolTransaction(p)

\* PoolSize + 1 postings in flight, no storage error
SpecPool == InitPool /\ [][NextPool]_vars

\* ---- payment lists: GET /api/payments and GET /api/payments/:account_number
NaN == -1000                \* parseInt of a parameter that is missing or no number
DefaultPageSize == 20       \* parseInt(process.env.DEFAULT_PAGE_SIZE) || 20
MaxPageSize == 100          \* parseInt(process.env.MAX_PAGE_SIZE) || 100

\* values of ?page= and ?limit= after parseInt
QueryPages == {NaN, -1, 0} \cup (1..(MaxRef + 1))
QueryLimits == {NaN, -1, 0, MaxPageSize, MaxPageSize + 1} \cup (1..MaxRef)

\* requests that read lists; the others post
Readers == {NProcs}
Posters == Procs

\* x || d
OrElse(x, d) == IF x = NaN \/ x = 0 THEN d ELSE x

Max(a, b) == IF a > b THEN a ELSE b

\* Math.ceil(a / b)
Ceil(a, b) == -((-a) \div b)

\* const page = Math.max(parseInt(req.query.page) || 1, 1)
PageOf(rawPage) == Max(OrElse(rawPage, 1), 1)

\* the requested limit taken as it comes
LimitOf_Uncapped(rawLimit) == OrElse(rawLimit, DefaultPageSize)

\* const limit = Math.min(parseInt(req.query.limit) || DEFAULT_PAGE_SIZE || 20,
\*                        MAX_PAGE_SIZE || 100)
LimitOf(rawLimit) ==
    IF OrElse(rawLimit, DefaultPageSize) < MaxPageSize
    THEN OrElse(rawLimit, DefaultPageSize) ELSE MaxPageSize

\* const offset = (page - 1) * limit
OffsetOf(page, limit) == (page - 1) * limit

\* hasNextPage left false
Pagination_NoNext(page, limit, total) ==
    [page |-> page, limit |-> limit, total |-> total,
     totalPages |-> Ceil(total, limit),
     hasNextPage |-> FALSE,
     hasPreviousPage |-> page > 1]

\* pagination: { page, limit, total, totalPages, hasNextPage, hasPreviousPage }
Pagination(page, limit, total) ==
    [page |-> page, limit |-> limit, total |-> total,
     totalPages |-> Ceil(total, limit),
     hasNextPage |-> page < Ceil(total, limit),
     hasPreviousPage |-> page > 1]

\* payment_date = new Date(), taken with the Date.now() of the reference and
\* stored as DATETIME (whole seconds): two references of one second share it
payment_date(r) == r.payment_reference_id \div 2

\* the status left out of both WHERE clauses
Matching_AnyStatus(q) ==
    IF q.kind = "history"
    THEN {r \in payments : Collate(r.account_number) = Collate(q.account_number)}
    ELSE {r \in payments : q.payment_method = NoMethod
                           \/ r.payment_method = q.payment_method}

\* WHERE p.account_number = ? AND p.status IN ('SUCCESS', 'FAILED')
\* (findByAccountNumber and countByAccountNumber), or WHERE 1=1 and the
\* payment_method filter (findAll and countAll)
Matching(q) ==
    IF q.kind = "history"
    THEN {r \in payments : Collate(r.account_number) = Collate(q.account_number)
                           /\ r.status \in {"SUCCESS", "FAILED"}}
    ELSE {r \in payments : q.payment_method = NoMethod
                           \/ r.payment_method = q.payment_method}

\* rows in whatever order the server finds them
Ordered_Any(rows) == TRUE

\* ORDER BY p.payment_date DESC
Ordered(rows) ==
    \A i, j \in 1..Len(rows) : i < j => payment_date(rows[i]) >= payment_date(rows[j])

\* the results the server may produce for the ORDER BY: every sequence of the
\* rows without repetition that is in order (rows of one second in any order)
Orderings(R) ==
    {rows \in [1..Cardinality(R) -> R] :
        /\ \A i, j \in 1..Cardinality(R) : i # j => rows[i] # rows[j]
        /\ Ordered(rows)}

\* safeLimit: Math.max(0, Math.floor(limit)) in findByAccountNumber,
\* Math.max(0, Math.min(limit, 100)) in findAll
SafeLimit(kind, limit) ==
    IF kind = "history" THEN Max(0, limit)
    ELSE Max(0, IF limit < 100 THEN limit ELSE 100)

\* safeOffset = Math.max(0, Math.floor(offset))
SafeOffset(offset) == Max(0, offset)

\* LIMIT safeLimit OFFSET safeOffset
LimitOffset(rows, limit, offset) ==
    SubSeq(rows, offset + 1, IF offset + limit < Len(rows) THEN offset + limit
                             ELSE Len(rows))

NoReq == [kind |-> "none", account_number |-> "",
          payment_amount |-> 0, payment_method |-> NoMethod]

\* what a list request has gathered: found and counted tell which of the two
\* queries of Promise.all have answered, matched is the number of matching rows
\* when the rows were read
NoList == [status |-> 0, success |-> FALSE, found |-> FALSE, counted |-> FALSE,
           data |-> <<>>, matched |-> 0,
           pagination |-> Pagination(0, 1, 0)]

\* GET /api/payments/:account_number?page=&limit=
InvokeHistory(p) ==
    /\ p \in Readers
    /\ pc[p] = "idle"
    /\ \E acc \in Accounts, rawPage \in QueryPages, rawLimit \in QueryLimits :
         req' = [req EXCEPT ![p] = [kind |-> "history", account_number |-> acc,
                                    payment_method |-> NoMethod,
                                    page |-> PageOf(rawPage),
                                    limit |-> LimitOf(rawLimit),
                                    rawPage |-> rawPage,
                                    rawLimit |-> rawLimit]]
    /\ res' = [res EXCEPT ![p] = NoList]
    /\ pc' = [pc EXCEPT ![p] = "query"]
    /\ UNCHANGED <<screen, customers, arg, tx, payments, outstanding_balance, schedule,
                   slock, xlock, held>>

\* GET /api/payments?page=&limit=&payment_method=
InvokeList(p) ==
    /\ p \in Readers
    /\ pc[p] = "idle"
    /\ \E m \in Methods \cup {NoMethod}, rawPage \in QueryPages,
          rawLimit \in QueryLimits :
         req' = [req EXCEPT ![p] = [kind |-> "list", account_number |-> "",
                                    payment_method |-> m,
                                    page |-> PageOf(rawPage),
                                    limit |-> LimitOf(rawLimit),
                                    rawPage |-> rawPage,
                                    rawLimit |-> rawLimit]]
    /\ res' = [res EXCEPT ![p] = NoList]
    /\ pc' = [pc EXCEPT ![p] = "query"]
    /\ UNCHANGED <<screen, customers, arg, tx, payments, outstanding_balance, schedule,
                   slock, xlock, held>>

\* Payment.findByAccountNumber / Payment.findAll answers
FindRows(p) ==
    /\ pc[p] = "query"
    /\ ~res[p].found
    /\ \E rows \in Orderings(Matching(req[p])) :
         LET limit == SafeLimit(req[p].kind, req[p].limit)
             offset == SafeOffset(OffsetOf(req[p].page, req[p].limit))
             r == [res[p] EXCEPT !.data = LimitOffset(rows, limit, offset),
                                 !.matched = Len(rows)]
         IN  /\ pc' = [pc EXCEPT ![p] = IF r.counted THEN "done" ELSE "query"]
             /\ res' = [res EXCEPT ![p] =
                           [r EXCEPT !.found = TRUE,
                                     !.status = IF r.counted THEN 200 ELSE 0,
                                     !.success = r.counted]]
    /\ UNCHANGED <<screen, customers, req, arg, tx, payments, outstanding_balance,
                   schedule, slock, xlock, held>>

\* Payment.countByAccountNumber / Payment.countAll answers
CountRows(p) ==
    /\ pc[p] = "query"
    /\ ~res[p].counted
    /\ LET total == Cardinality(Matching(req[p]))
           r == [res[p] EXCEPT !.pagination =
                                  Pagination(req[p].page, req[p].limit, total)]
       IN  /\ pc' = [pc EXCEPT ![p] = IF r.found THEN "done" ELSE "query"]
           /\ res' = [res EXCEPT ![p] =
                         [r EXCEPT !.counted = TRUE,
                                   !.status = IF r.found THEN 200 ELSE 0,
                                   !.success = r.found]]
    /\ UNCHANGED <<screen, customers, req, arg, tx, payments, outstanding_balance,
                   schedule, slock, xlock, held>>

\* a posting of the smallest amount by a caller of Payment.create
InvokeSequential(p) ==
    /\ p \in Posters
    /\ pc[p] = "idle"
    /\ \E c \in CustomerIds, m \in SubmittedMethods(p) :
         /\ req' = [req EXCEPT ![p] = [kind |-> "create",
                                       account_number |-> account_number(c),
                                       payment_amount |-> MinAmount,
                                       payment_method |-> m]]
         /\ arg' = [arg EXCEPT ![p] = [customer_id |-> c,
                                       account_number |-> account_number(c),
                                       payment_amount |-> MinAmount,
                                       payment_method |-> m]]
    /\ pc' = [pc EXCEPT ![p] = "getconn"]
    /\ UNCHANGED <<screen, customers, tx, payments, outstanding_balance, schedule,
                   slock, xlock, held, res>>

\* the request is over; the server takes the next one
NextRequest(p) ==
    /\ pc[p] = "done"
    /\ pc' = [pc EXCEPT ![p] = "idle"]
    /\ req' = [req EXCEPT ![p] = NoReq]
    /\ arg' = [arg EXCEPT ![p] = NoArg]
    /\ res' = [res EXCEPT ![p] = NoRes]
    /\ UNCHANGED <<screen, customers, tx, payments, outstanding_balance, schedule,
                   slock, xlock, held>>

\* ---- customers: GET /api/customers and POST /api/customers ---------------
NewAccounts == {"ACC003", "ACC004"}
BodyEmails == {NoEmail, "rahul@example.com", "amit@example.com"}
QueryOffsets == {NaN, 1}

\* const limit = Math.min(parseInt(req.query.limit) || 50, 100)
CustomerLimitOf(rawLimit) ==
    IF OrElse(rawLimit, 50) < 100 THEN OrElse(rawLimit, 50) ELSE 100

\* WHERE status = 'ACTIVE'
ActiveCustomers == {r \in customers : r.status = "ACTIVE"}

\* GET /api/customers?limit=&offset=
InvokeCustomers(p) ==
    /\ p \in Readers
    /\ pc[p] = "idle"
    /\ \E rawLimit \in QueryLimits, rawOffset \in QueryOffsets :
         req' = [req EXCEPT ![p] = [kind |-> "customers",
                                    limit |-> CustomerLimitOf(rawLimit),
                                    offset |-> OrElse(rawOffset, 0),
                                    rawLimit |-> rawLimit]]
    /\ res' = [res EXCEPT ![p] = NoList]
    /\ pc' = [pc EXCEPT ![p] = "customers"]
    /\ UNCHANGED <<screen, customers, arg, tx, payments, outstanding_balance, schedule,
                   slock, xlock, held>>

\* Customer.findAll answers: LIMIT safeLimit OFFSET safeOffset of the ACTIVE
\* rows; the response reports limit, offset and count
FindCustomers(p) ==
    /\ pc[p] = "customers"
    /\ LET limit == Max(0, req[p].limit)
           offset == SafeOffset(req[p].offset)
           left == Max(0, Cardinality(ActiveCustomers) - offset)
       IN  res' = [res EXCEPT ![p] =
                      [NoList EXCEPT !.status = 200, !.success = TRUE,
                                     !.found = TRUE,
                                     !.pagination =
                                         [limit |-> req[p].limit,
                                          offset |-> req[p].offset,
                                          count |-> IF limit < left THEN limit
                                                    ELSE left]]]
    /\ pc' = [pc EXCEPT ![p] = "done"]
    /\ UNCHANGED <<screen, customers, req, arg, tx, payments, outstanding_balance,
                   schedule, slock, xlock, held>>

\* no unique index on customers.account_number
DuplicateAccount_NoIndex(acc) == FALSE

\* account_number VARCHAR(50) UNIQUE NOT NULL
DuplicateAccount(acc) ==
    \E r \in customers : Collate(r.account_number) = Collate(acc)

\* email VARCHAR(100) UNIQUE (NULLs do not collide)
DuplicateEmail(mail) == mail # NoEmail /\ \E r \in customers : r.email = mail

\* id INT AUTO_INCREMENT: above every id in use; a failed INSERT may have
\* used up a value
NextIds ==
    LET top == CHOOSE i \in {r.id : r \in customers} :
                   \A r \in customers : r.id <= i
    IN  {top + 1, top + 2}

NoCustomerRes == [status |-> 0, success |-> FALSE, id |-> 0, cause |-> "none"]

\* POST /api/customers: the required fields are checked, then Customer.create
InvokeCustomer(p) ==
    /\ pc[p] = "idle"
    /\ \E acc \in Accounts \cup NewAccounts \cup {NoAccount}, mail \in BodyEmails,
          complete \in BOOLEAN :
         /\ req' = [req EXCEPT ![p] = [kind |-> "customer", account_number |-> acc,
                                       email |-> mail, complete |-> complete]]
         /\ IF acc = NoAccount \/ ~complete
            THEN /\ pc' = [pc EXCEPT ![p] = "done"]
                 /\ res' = [res EXCEPT ![p] = [NoCustomerRes EXCEPT !.status = 400]]
            ELSE /\ pc' = [pc EXCEPT ![p] = "insertcust"]
                 /\ res' = [res EXCEPT ![p] = NoCustomerRes]
    /\ UNCHANGED <<screen, customers, arg, tx, payments, outstanding_balance, schedule,
                   slock, xlock, held>>

\* Customer.create: the INSERT answers; 'Duplicate entry' is answered 409,
\* a new row 201
InsertCustomer(p) ==
    /\ pc[p] = "insertcust"
    /\ IF DuplicateAccount(req[p].account_number) \/ DuplicateEmail(req[p].email)
       THEN /\ customers' = customers
            /\ res' = [res EXCEPT ![p] =
                          [NoCustomerRes EXCEPT !.status = 409, !.cause = "dup"]]
       ELSE \E id \in NextIds :
              /\ customers' = customers \cup
                     {CustomerRow(id, req[p].account_number, req[p].email)}
              /\ res' = [res EXCEPT ![p] =
                            [NoCustomerRes EXCEPT !.status = 201, !.success = TRUE,
                                                  !.id = id]]
    /\ pc' = [pc EXCEPT ![p] = "done"]
    /\ UNCHANGED <<screen, req, arg, tx, payments, outstanding_balance, schedule, slock,
                   xlock, held>>

\* pool.execute rejects for another reason (a column left undefined, a NOT
\* NULL column missing, the connection lost): answered 500
InsertCustomerError(p) ==
    /\ pc[p] = "insertcust"
    /\ res' = [res EXCEPT ![p] =
                  [NoCustomerRes EXCEPT !.status = 500, !.cause = "storage"]]
    /\ pc' = [pc EXCEPT ![p] = "done"]
    /\ UNCHANGED <<screen, customers, req, arg, tx, payments, outstanding_balance,
                   schedule, slock, xlock, held>>

NextCustomers ==
    \E p \in Procs :
        \/ InvokeCustomer(p)
        \/ InsertCustomer(p)
        \/ InsertCustomerError(p)
        \/ InvokeCustomers(p)
        \/ FindCustomers(p)
        \/ NextRequest(p)

\* customers created and listed
SpecCustomers == Init /\ [][NextCustomers]_vars

\* ---- reading an account's payments page by page ----------------------------
\* status ENUM('PENDING', 'SUCCESS', 'FAILED', 'REVERSED')
Statuses == {"PENDING", "SUCCESS", "FAILED", "REVERSED"}

StoredRefs == 1..(MaxRef + 1)

\* a payments row as the table may hold it, whatever wrote its status
StoredRow(ref, c, st) ==
    [payment_reference_id |-> ref,
     customer_id          |-> c,
     account_number       |-> account_number(c),
     payment_amount       |-> MinAmount,
     status               |-> st,
     payment_method       |-> "UPI"]

\* payments tables: per reference no row or one row, of any customer and status
StoredTables ==
    {{StoredRow(ref, f[ref][1], f[ref][2]) : ref \in {x \in StoredRefs : f[x] # <<>>}} :
        f \in [StoredRefs -> {<<>>} \cup (CustomerIds \X Statuses)]}

InitPages ==
    /\ pc = [p \in Procs |-> "idle"]
    /\ req = [p \in Procs |-> NoReq]
    /\ arg = [p \in Procs |-> NoArg]
    /\ tx = [p \in Procs |-> NoTx]
    /\ payments \in StoredTables
    /\ outstanding_balance = [c \in CustomerIds |-> InitialBalance(c)]
    /\ schedule = [s \in SchedIds |-> [status |-> "PENDING", paid_amount |-> 0]]
    /\ slock = [c \in CustomerIds |-> {}]
    /\ xlock = [c \in CustomerIds |-> 0]
    /\ held = {}
    /\ screen = NoScreen
    /\ customers = {CustomerRow(c, account_number(c), email(c)) : c \in CustomerIds}
    /\ res = [p \in Procs |-> NoRes]

\* page sizes asked for
PageSizes == 1..MaxRef

\* a client sets out to read all payments of an account, limit rows a page
InvokePages(p) ==
    /\ p \in Readers
    /\ pc[p] = "idle"
    /\ \E acc \in Accounts, limit \in PageSizes :
         req' = [req EXCEPT ![p] = [kind |-> "history", account_number |-> acc,
                                    payment_method |-> NoMethod,
                                    page |-> 1, limit |-> limit,
                                    rawPage |-> 1, rawLimit |-> limit]]
    /\ res' = [res EXCEPT ![p] = NoList]
    /\ pc' = [pc EXCEPT ![p] = "pages"]
    /\ UNCHANGED <<screen, customers, arg, tx, payments, outstanding_balance, schedule,
                   slock, xlock, held>>

\* Payment.findByAccountNumber(acc, limit, (page - 1) * limit) answers with the
\* next page; a page shorter than limit is the last one
FindPage(p) ==
    /\ pc[p] = "pages"
    /\ \E rows \in Orderings(Matching(req[p])) :
         LET limit == SafeLimit(req[p].kind, req[p].limit)
             offset == SafeOffset(OffsetOf(req[p].page, req[p].limit))
             data == LimitOffset(rows, limit, offset)
         IN  /\ res' = [res EXCEPT ![p].data = @ \o data,
                                   ![p].matched = Len(rows),
                                   ![p].found = Len(data) < req[p].limit]
             /\ IF Len(data) < req[p].limit
                THEN pc' = [pc EXCEPT ![p] = "total"] /\ req' = req
                ELSE pc' = pc /\ req' = [req EXCEPT ![p].page = @ + 1]
    /\ UNCHANGED <<screen, customers, arg, tx, payments, outstanding_balance,
                   schedule, slock, xlock, held>>

\* Payment.countByAccountNumber(acc) answers
CountTotal(p) ==
    /\ pc[p] = "total"
    /\ res' = [res EXCEPT ![p].pagination =
                             Pagination(req[p].page, req[p].limit,
                                        Cardinality(Matching(req[p]))),
                          ![p].counted = TRUE, ![p].status = 200,
                          ![p].success = TRUE]
    /\ pc' = [pc EXCEPT ![p] = "done"]
    /\ UNCHANGED <<screen, customers, req, arg, tx, payments, outstanding_balance,
                   schedule, slock, xlock, held>>

NextPages == \E p \in Procs : InvokePages(p) \/ FindPage(p) \/ CountTotal(p)

\* the list and the count over tables at rest (no posting in progress)
SpecPages == InitPages /\ [][NextPages]_vars

NextHistory ==
    \E p \in Procs :
        \/ InvokeSequential(p)
        \/ Transaction(p)
        \/ NextRequest(p)
        \/ InvokeHistory(p)
        \/ InvokeList(p)
        \/ FindRows(p)
        \/ CountRows(p)
        \/ InvokeCustomers(p)
        \/ FindCustomers(p)

\* postings one after the other, lists read next to them
SpecHistory == Init /\ [][NextHistory]_vars

\* ---- the payment form: PaymentFormScreen -----------------------------------
\* what formData.payment_amount may hold: '', text that is no number, amounts
\* from 0 to one above the customer's balance
FormAmounts == {NoAmount, NaN} \cup (0..(MaxAmount + 1))

FormMethods == {"UPI", "CARD"}

BackendVars == <<pc, req, arg, tx, payments, outstanding_balance, schedule,
                 slock, xlock, held, customers, res>>

\* the submit control rendered without its disabled prop
SubmitDisabled_Never(loading) == FALSE

\* <TouchableOpacity onPress={handleSubmitPayment} disabled={loading}>
SubmitDisabled(loading) == loading

\* a state change made in a handler is rendered before the next event is
\* handled: the submit control gets its disabled prop from the new loading
Render(sc) == [sc EXCEPT !.disabled = SubmitDisabled(sc.loading)]

\* validateForm: the toast it shows, "none" when the form is valid
ValidateForm(amount) ==
    IF amount = NoAmount THEN "warning"
    ELSE IF amount = NaN \/ amount <= 0 THEN "danger"
    ELSE IF amount > InitialBalance(1) THEN "danger"
    ELSE "none"

Without(seq, i) == SubSeq(seq, 1, i - 1) \o SubSeq(seq, i + 1, Len(seq))

\* handleInputChange(field, value); the inputs have editable={!loading} and
\* the method buttons disabled={loading}
HandleInputChange ==
    /\ ~screen.loading
    /\ \/ \E v \in FormAmounts :
            /\ v # screen.formData.payment_amount
            /\ screen' = Render([screen EXCEPT !.formData.payment_amount = v])
       \/ \E m \in FormMethods :
            /\ m # screen.formData.payment_method
            /\ screen' = Render([screen EXCEPT !.formData.payment_method = m])
    /\ UNCHANGED BackendVars

\* the submit control is pressed: handleSubmitPayment runs up to its await
HandleSubmitPayment ==
    /\ ~screen.disabled
    /\ Len(screen.requests) < MaxRequests
    /\ LET amount == screen.formData.payment_amount
           paymentPayload == [account_number |-> account_number(1),
                              payment_amount |-> amount,
                              payment_method |-> screen.formData.payment_method]
       IN  IF ValidateForm(amount) # "none"
           THEN screen' = [screen EXCEPT !.toast = ValidateForm(amount)]
           ELSE screen' = Render([screen EXCEPT
                                     !.loading = TRUE,
                                     !.requests = Append(@, paymentPayload)])
    /\ UNCHANGED BackendVars

\* paymentService.processPayment resolves: with response.data.success the
\* modal opens and the form is reset; finally setLoading(false)
Resolved ==
    /\ \E i \in 1..Len(screen.requests), success \in BOOLEAN :
         screen' = Render(
             IF success
             THEN [screen EXCEPT !.successData = screen.requests[i],
                                 !.showSuccessModal = TRUE,
                                 !.formData = NoScreen.formData,
                                 !.toast = "success",
                                 !.loading = FALSE,
                                 !.requests = Without(@, i)]
             ELSE [screen EXCEPT !.loading = FALSE,
                                 !.requests = Without(@, i)])
    /\ UNCHANGED BackendVars

\* paymentService.processPayment rejects: catch shows the message; finally
\* setLoading(false)
Rejected ==
    /\ \E i \in 1..Len(screen.requests) :
         screen' = Render([screen EXCEPT !.toast = "danger",
                                         !.loading = FALSE,
                                         !.requests = Without(@, i)])
    /\ UNCHANGED BackendVars

\* handleCloseSuccessModal
HandleCloseSuccessModal ==
    /\ screen.showSuccessModal
    /\ screen' = Render([screen EXCEPT !.showSuccessModal = FALSE])
    /\ UNCHANGED BackendVars

NextForm ==
    \/ HandleInputChange
    \/ HandleSubmitPayment
    \/ Resolved
    \/ Rejected
    \/ HandleCloseSuccessModal

\* one PaymentFormScreen and the user in front of it
SpecForm == Init /\ [][NextForm]_vars

\* ---- properties -----------------------------------------------------------
\* postings whose Payment.create committed and returned
Succeeded == {p \in Procs : res[p].create = "ok"}

SucceededFor(c) == {p \in Succeeded : arg[p].customer_id = c}

RECURSIVE SumAmount(_)
SumAmount(S) ==
    IF S = {} THEN 0
    ELSE LET p == CHOOSE p \in S : TRUE
         IN  arg[p].payment_amount + SumAmount(S \ {p})

RECURSIVE SumRows(_)
SumRows(R) ==
    IF R = {} THEN 0
    ELSE LET r == CHOOSE r \in R : TRUE
         IN  r.payment_amount + SumRows(R \ {r})

Min(a, b) == IF a < b THEN a ELSE b

PaidEntries(c) == {s \in SchedIds : SchedOwner(s) = c /\ schedule[s].status = "PAID"}

EntriesOf(c) == {s \in SchedIds : SchedOwner(s) = c}

Failed(p) == pc[p] = "done" /\ res[p].create = "threw"

RowsOf(c) == {r \in payments : r.customer_id = c}

\* the committed tables are what the succeeded postings made of the initial ones
TablesReflectSucceeded ==
    /\ payments = {NewPaymentRow(res[p].ref, arg[p]) : p \in Succeeded}
    /\ \A c \in CustomerIds :
         /\ outstanding_balance[c] = InitialBalance(c) - SumAmount(SucceededFor(c))
         /\ Cardinality(PaidEntries(c)) =
                Min(Cardinality(SucceededFor(c)), Cardinality(EntriesOf(c)))
         /\ \A s \in EntriesOf(c) :
                IF schedule[s].status = "PAID"
                THEN \E p \in SucceededFor(c) :
                        schedule[s].paid_amount = arg[p].payment_amount
                ELSE schedule[s] = [status |-> "PENDING", paid_amount |-> 0]

\* C1: a Payment.create that fails at any step leaves nothing behind: in every
\* state the committed tables are what the postings that succeeded made of
\* the initial tables.  The payment rows are exactly the rows of the succeeded
\* postings, each balance is the initial one minus the amounts of the
\* succeeded postings of that customer, and a schedule entry is PAID only by
\* a succeeded posting of its customer; a failed posting is none of them and
\* has no transaction left open.
FailedPostingLeavesNothing ==
    /\ \A p \in Procs : Failed(p) => p \notin Succeeded /\ tx[p] = NoTx
    /\ TablesReflectSucceeded

\* a posting failed at COMMIT, with its three statements executed, and is over
FailedAtCommit ==
    \E p \in Procs :
        Failed(p) /\ res[p].cause = "commit" /\ HasCustomerRow(arg[p].customer_id)

\* C2: the step in which a Payment.create commits and returns takes exactly
\* payment_amount off the customer's outstanding_balance: the committed balance
\* after it is the committed balance before it minus the amount (in cents).
\* No posting for that customer runs in between, so the balance before the
\* step is the balance before the call.
BalanceConservation ==
    [][\A p \in Procs :
          (pc[p] = "commit" /\ res'[p].create = "ok")
          => outstanding_balance'[arg[p].customer_id]
               = outstanding_balance[arg[p].customer_id] - arg[p].payment_amount]_vars

\* two postings for one customer succeeded, one after the other
TwoPostingsApplied ==
    \E c \in CustomerIds :
        /\ Cardinality(SucceededFor(c)) >= 2
        /\ outstanding_balance[c] = InitialBalance(c) - SumAmount(SucceededFor(c))

AllDone == \A p \in Procs : pc[p] = "done"

\* C3: NProcs postings of amount a started together against one customer
\* whose balance is at least NProcs * a all apply: once all are over (none
\* having drawn a reference already in use), every one returned, the balance
\* is the initial one minus NProcs * a and the customer has NProcs rows.
ConcurrentPostingsAllApply ==
    (AllDone /\ \A p \in Procs : res[p].cause # "dup")
    => LET c == arg[1].customer_id
           a == arg[1].payment_amount
       IN  /\ \A p \in Procs : res[p].create = "ok"
           /\ outstanding_balance[c] = InitialBalance(c) - NProcs * a
           /\ Cardinality(RowsOf(c)) = NProcs

\* C4: for each customer the initial balance minus the committed balance is
\* the sum of payment_amount over the customer's committed payment rows: a
\* row is there exactly when its decrement is.
PaymentBalanceConsistency ==
    \A c \in CustomerIds :
        InitialBalance(c) - outstanding_balance[c] = SumRows(RowsOf(c))

\* a customer has two payment rows
TwoRowsOneCustomer ==
    \E c \in CustomerIds : Cardinality(RowsOf(c)) >= 2

\* C5: after any interleaving of processPayment calls no outstanding_balance
\* is negative.
BalanceNeverNegative == \A c \in CustomerIds : outstanding_balance[c] >= 0

\* C6: a posting for a customer that exists, run next to postings for a
\* customer_id without a row, is never made to wait or fail by them: it
\* returns, its customer's balance drops by its amount exactly, the only
\* payment row is its own, every other balance stays, and the failing
\* postings never succeed.
IsolationOfFailure ==
    LET c == arg[1].customer_id
        ok == res[1].create = "ok"
    IN  /\ res[1].create # "threw"
        /\ pc[1] \notin {"idle", "done"} => ENABLED Transaction(1)
        /\ pc[1] = "done" => ok
        /\ \A p \in Procs \ {1} : res[p].create # "ok"
        /\ \A d \in CustomerIds :
              outstanding_balance[d] =
                  IF ok /\ d = c THEN InitialBalance(d) - arg[1].payment_amount
                  ELSE InitialBalance(d)
        /\ payments = IF ok THEN {NewPaymentRow(res[1].ref, arg[1])} ELSE {}

\* the posting for customer_id 99999 failed on the foreign key and the other
\* posting returned
FailedNextToSucceeded ==
    /\ res[1].create = "ok"
    /\ \E p \in Procs \ {1} : Failed(p) /\ res[p].cause = "fk"

\* C7: no two committed payment rows share a payment_reference_id, and no two
\* postings that returned were given the same one.
ReferenceUniqueness ==
    /\ \A r1, r2 \in payments :
          r1.payment_reference_id = r2.payment_reference_id => r1 = r2
    /\ \A p, q \in Succeeded : p # q => res[p].ref # res[q].ref

\* a posting drew the reference of a committed row and failed on it
DuplicateRejected ==
    \E p \in Procs, q \in Succeeded : Failed(p) /\ res[p].cause = "dup"

\* C8: once Payment.create has returned, findByReferenceId of the returned
\* reference yields a row with the submitted payment_amount, customer_id and
\* account_number, the submitted payment_method ('UPI' when none was
\* submitted) and status SUCCESS; a reference no posting returned yields null.
ReadAfterWrite ==
    /\ \A p \in Succeeded :
          LET r == findByReferenceId(res[p].ref)
          IN  /\ r # NoRow
              /\ r.payment_amount = req[p].payment_amount
              /\ r.customer_id = arg[p].customer_id
              /\ r.account_number = req[p].account_number
              /\ r.payment_method = (IF req[p].payment_method = NoMethod
                                      THEN "UPI" ELSE req[p].payment_method)
              /\ r.status = "SUCCESS"
    /\ \A ref \in RefIds \ {res[p].ref : p \in Succeeded} :
          findByReferenceId(ref) = NoRow

\* a posting submitted with method CARD returned, another reference is unused
ReadBackCard ==
    /\ \E p \in Succeeded :
          /\ req[p].payment_method = "CARD"
          /\ findByReferenceId(res[p].ref).payment_method = "CARD"
    /\ \E ref \in RefIds : findByReferenceId(ref) = NoRow

\* a request whose amount is above the balance processPayment read
OverPaying(p) ==
    IsPost(p) /\ res[p].read /\ req[p].payment_amount > res[p].seen

\* C9: processPayment with payment_amount above the outstanding_balance it
\* read answers 400 and never calls Payment.create: the request is over
\* with no connection and no transaction, and the step that rejects it leaves
\* payments, balances and schedule as they were.
OverPaymentRejected ==
    /\ [](\A p \in Procs :
            OverPaying(p)
            => /\ pc[p] = "done"
               /\ res[p].status = 400
               /\ ~res[p].success
               /\ res[p].create = "none"
               /\ res[p].ref = 0
               /\ tx[p] = NoTx
               /\ p \notin held)
    /\ [][\A p \in Procs :
            (pc[p] = "lookup" /\ OverPaying(p)')
            => UNCHANGED <<payments, outstanding_balance, schedule>>]_vars

\* a request was rejected for an amount above a balance an earlier payment
\* had reduced
OverPaymentSeen ==
    \E p \in Procs :
        /\ OverPaying(p)
        /\ res[p].status = 400
        /\ res[p].seen < InitialBalance(1)
        /\ payments # {}

\* C10: a POST /api/payments that passed validation and whose account_number
\* the lookup resolved to no customer ends with 404, and one whose
\* Payment.create threw ends with 500; both with success false, without a
\* payment row of theirs, the tables being those of the succeeded postings.
ErrorOutcomeMapping ==
    /\ \A p \in Procs :
          (IsPost(p) /\ pc[p] = "done")
          => /\ (/\ \A c \in CustomerIds :
                      Collate(account_number(c)) # Collate(req[p].account_number)
                 /\ req[p].account_number # NoAccount
                 /\ req[p].payment_amount >= MinAmount
                 /\ res[p].cause # "query")
                => /\ res[p].status = 404
                   /\ ~res[p].success
                   /\ res[p].create = "none"
             /\ res[p].create = "threw"
                => /\ res[p].status = 500
                   /\ ~res[p].success
                   /\ res[p].ref = 0
    /\ TablesReflectSucceeded

\* one request ended with 404 and another with the 500 of a failed transaction
NotFoundAndServerError ==
    \E p, q \in Procs :
        /\ IsPost(p) /\ pc[p] = "done" /\ res[p].status = 404
        /\ IsPost(q) /\ Failed(q) /\ res[q].status = 500

\* a request without account_number, or whose payment_amount is missing or
\* below one cent
InvalidBody(p) ==
    /\ IsPost(p)
    /\ \/ req[p].account_number = NoAccount
       \/ req[p].payment_amount = NoAmount
       \/ req[p].payment_amount < MinAmount

\* C11: a POST /api/payments whose payment_amount is missing, negative, zero
\* or below one cent, or whose account_number is missing, is answered 400 by
\* the validator: it is over at once, Payment.create is never called for it
\* (no connection, no transaction, no reference), and the step that takes
\* the request in leaves payments, balances and schedule as they were.
InvalidRequestRejected ==
    /\ [](\A p \in Procs :
            InvalidBody(p)
            => /\ pc[p] = "done"
               /\ res[p].status = 400
               /\ ~res[p].success
               /\ res[p].create = "none"
               /\ ~res[p].read
               /\ arg[p] = NoArg
               /\ tx[p] = NoTx
               /\ p \notin held)
    /\ [][\A p \in Procs :
            (pc[p] = "idle" /\ InvalidBody(p)')
            => UNCHANGED <<payments, outstanding_balance, schedule>>]_vars

\* a request without payment_amount and one without account_number were
\* both answered 400
MissingFieldsRejected ==
    \E p, q \in Procs :
        /\ IsPost(p) /\ req[p].payment_amount = NoAmount /\ res[p].status = 400
        /\ req[p].account_number \in Accounts
        /\ IsPost(q) /\ req[q].account_number = NoAccount /\ res[q].status = 400
        /\ req[q].payment_amount >= MinAmount

\* C12: across POST /api/payments requests no step raises a customer's
\* committed outstanding_balance: in every step each balance is at most what
\* it was before, so no later committed state shows more than an earlier one.
BalanceNonIncreasing ==
    [][\A c \in CustomerIds :
          outstanding_balance'[c] <= outstanding_balance[c]]_vars

\* two requests for one customer were answered 201 and its balance went down
\* with each
BalanceWentDownTwice ==
    \E c \in CustomerIds :
        /\ \A p \in Procs :
              IsPost(p) /\ res[p].status = 201 /\ arg[p].customer_id = c
        /\ outstanding_balance[c] <= InitialBalance(c) - NProcs * MinAmount

\* the committed payment rows of an account: one per posting that returned
RowsOfAccount(acc) == {r \in payments : r.account_number = acc}

IsHistory(p) == req[p].kind = "history"

\* C13: GET /api/payments/:account_number reports as total exactly the number
\* of payment rows the account has when the count is taken (k after k
\* postings that returned, the account having started without payments), and
\* the rows of every page it returns are rows of that account, none twice,
\* in non-increasing payment_date.
HistoryCompleteAndOrdered ==
    /\ [][\A p \in Procs :
            (IsHistory(p) /\ ~res[p].counted /\ IsHistory(p)' /\ res'[p].counted)
            => res'[p].pagination.total
                 = Cardinality(RowsOfAccount(req[p].account_number))]_vars
    /\ [](\A p \in Procs :
            (IsHistory(p) /\ res[p].found)
            => LET data == res[p].data
               IN  /\ \A i \in 1..Len(data) :
                        data[i].account_number = req[p].account_number
                   /\ \A i, j \in 1..Len(data) :
                        i < j => /\ data[i] # data[j]
                                 /\ payment_date(data[i]) >= payment_date(data[j]))

\* two postings for one account returned at different seconds, and the
\* history of the account was read in one page
HistoryOfTwo ==
    \E p \in Procs :
        /\ IsHistory(p) /\ pc[p] = "done" /\ res[p].status = 200
        /\ res[p].pagination.total = 2
        /\ Len(res[p].data) = 2
        /\ payment_date(res[p].data[1]) > payment_date(res[p].data[2])

IsList(p) == req[p].kind \in {"history", "list"}

\* the rows a list request is about: those of the account, or all rows, or
\* the rows of the payment_method asked for
RowsAskedFor(p) ==
    IF req[p].kind = "history" THEN RowsOfAccount(req[p].account_number)
    ELSE IF req[p].payment_method = NoMethod THEN payments
    ELSE {r \in payments : r.payment_method = req[p].payment_method}

IsCustomers(p) == req[p].kind = "customers"

\* C15: whatever ?limit= holds, the limit GET /api/payments (and the account
\* history) and GET /api/customers report is at most 100, and GET
\* /api/payments without a limit reports 20.
PageSizeCapAndDefault ==
    \A p \in Procs :
        ((IsList(p) \/ IsCustomers(p)) /\ pc[p] = "done")
        => /\ res[p].status = 200
           /\ res[p].pagination.limit <= 100
           /\ (IsList(p) /\ req[p].rawLimit = NaN) => res[p].pagination.limit = 20

\* ?limit=101 was answered with limit 100
LimitCapped ==
    \E p \in Procs :
        /\ req[p].kind = "list" /\ pc[p] = "done"
        /\ req[p].rawLimit = 101
        /\ res[p].pagination.limit = 100

ScheduleSideEffect ==
    [][\A p \in Procs :
          (pc[p] = "commit" /\ res'[p].create = "ok")
          => LET c == arg[p].customer_id
                 a == arg[p].payment_amount
                 pending == {s \in SchedIds :
                                SchedOwner(s) = c /\ schedule[s].status = "PENDING"}
             IN  IF pending = {}
                 THEN schedule' = schedule
                 ELSE \E s \in pending :
                        schedule' = [schedule EXCEPT ![s] =
                                        [status |-> "PAID",
                                         paid_amount |-> schedule[s].paid_amount + a]]]_vars

\* a posting for the customer with entries returned and paid one of them, and
\* a posting for the customer without entries returned too
OneEntryPaidOneNone ==
    \E p, q \in Succeeded :
        /\ arg[p].customer_id = 1 /\ arg[q].customer_id = 2
        /\ Cardinality(PaidEntries(1)) = 1
        /\ \E s \in PaidEntries(1) : schedule[s].paid_amount = arg[p].payment_amount

\* C18: the step in which a Payment.create for customer c commits and returns
\* adds exactly one payment row, owned by c, and keeps every row that was
\* there; it changes the outstanding_balance of c alone and no schedule entry
\* of another customer.
FrameOfPosting ==
    [][\A p \in Procs :
          (pc[p] = "commit" /\ res'[p].create = "ok")
          => LET c == arg[p].customer_id
             IN  /\ payments \subseteq payments'
                 /\ Cardinality(payments' \ payments) = 1
                 /\ \A r \in payments' \ payments :
                        /\ r.customer_id = c
                        /\ r.payment_reference_id = res'[p].ref
                 /\ \A d \in CustomerIds \ {c} :
                        outstanding_balance'[d] = outstanding_balance[d]
                 /\ outstanding_balance'[c] # outstanding_balance[c]
                 /\ \A s \in SchedIds :
                        SchedOwner(s) # c => schedule'[s] = schedule[s]]_vars

\* postings for customer 1 and for customer 2 returned: both rows are there
\* and an entry of customer 1 is still PENDING
BothCustomersPosted ==
    \E p, q \in Succeeded :
        /\ arg[p].customer_id = 1 /\ arg[q].customer_id = 2
        /\ Cardinality(payments) = 2
        /\ \E s \in SchedIds : schedule[s].status = "PENDING"

\* C19: every payment row Payment.create inserts, committed or still in its
\* transaction, has status SUCCESS, and every invocation that is over either
\* returned a record with status SUCCESS whose row is committed or threw.
OnlySuccessPayments ==
    /\ \A r \in payments : r.status = "SUCCESS"
    /\ \A p \in Procs :
          /\ tx[p].pay # NoRow => tx[p].pay.status = "SUCCESS"
          /\ pc[p] = "done"
             => \/ /\ res[p].create = "ok"
                   /\ res[p].returned = "SUCCESS"
                   /\ \E r \in payments : r.payment_reference_id = res[p].ref
                \/ /\ res[p].create = "threw"
                   /\ res[p].returned = "none"

\* one invocation returned its SUCCESS record and another threw
ReturnedAndThrew ==
    \E p, q \in Procs :
        /\ pc[p] = "done" /\ res[p].returned = "SUCCESS"
        /\ pc[q] = "done" /\ res[q].create = "threw" /\ res[q].cause = "storage"

\* the statements of Payment.create in the order of the code
StepOrder ==
    [idle |-> 0, getconn |-> 1, begin |-> 2, insert |-> 3, balance |-> 4,
     schedule |-> 5, commit |-> 6, rollback |-> 7, refetch |-> 8, done |-> 9]

\* C20: whatever fails in Payment.create once it has its connection (the
\* duplicate reference included), the next thing it does is the ROLLBACK, and
\* only the step that ends the rollback throws: after it the invocation has
\* no transaction, no lock and no connection, and the tables are as before.
\* There is one attempt: no step takes the invocation back to an earlier
\* statement, so the INSERT is executed at most once and the reference drawn
\* once.
RollbackBeforePropagate ==
    [][\A p \in Procs :
          /\ (res'[p].cause # res[p].cause /\ p \in held) => pc'[p] = "rollback"
          /\ (res'[p].create = "threw" /\ res[p].create # "threw" /\ p \in held)
             => /\ pc[p] = "rollback"
                /\ tx'[p] = NoTx
                /\ p \notin held'
                /\ \A c \in CustomerIds : p \notin slock'[c] /\ xlock'[c] # p
                /\ UNCHANGED <<payments, outstanding_balance, schedule>>
          /\ pc'[p] # pc[p] => StepOrder[pc'[p]] > StepOrder[pc[p]]
          /\ (pc[p] = "insert" /\ (tx'[p] # tx[p] \/ res'[p] # res[p]))
             => pc'[p] # "insert"]_vars

\* a posting drew a reference in use, was rolled back and threw, with
\* nothing of it left
DuplicateRolledBack ==
    \E p \in Procs :
        /\ Failed(p) /\ res[p].cause = "dup" /\ res[p].ref = 0
        /\ tx[p] = NoTx /\ p \notin held
        /\ Cardinality(payments) = 1

\* C21: every connection Payment.create takes from the pool is released exactly
\* once before the invocation completes: a posting holds a connection exactly
\* while it stands between getConnection and the end of the transaction; the
\* connection is taken in the getConnection step only and given back only in
\* the step that completes the invocation, whether that step is the commit,
\* the rollback or a rollback that itself fails; once all postings have
\* completed the pool has no connection checked out.
ConnectionLifecycle ==
    /\ [](\A p \in Procs : (p \in held) <=> (pc[p] \in Holding))
    /\ []((\A p \in Procs : pc[p] = "done") => held = {})
    /\ [][\A p \in Procs :
             /\ (p \in held /\ p \notin held')
                => /\ pc[p] \in {"commit", "rollback"}
                   /\ pc'[p] \in {"done", "refetch"}
                   /\ res'[p].create \in {"ok", "threw"}
             /\ (p \notin held /\ p \in held')
                => pc[p] = "getconn" /\ pc'[p] = "begin"
             /\ (pc[p] \in Holding /\ pc'[p] \notin Holding) => p \notin held']_vars

\* one posting committed, another was rolled back after a failed statement,
\* both have completed and no connection is checked out
AllConnectionsReturned ==
    /\ \A p \in Procs : pc[p] = "done"
    /\ \E p, q \in Procs :
          /\ res[p].create = "ok"
          /\ res[q].create = "threw" /\ res[q].cause \in {"dup", "fk", "storage", "commit"}
    /\ held = {}

\* C22: the pool is bounded: in every reachable state at most 10 postings hold a
\* connection, and a posting that asks for a connection while 10 are held
\* stays waiting at getConnection, it does not fail.
BoundedPool ==
    /\ [](Cardinality(held) <= 10)
    /\ [][\A p \in DOMAIN pc :
             (pc[p] = "getconn" /\ Cardinality(held) >= 10)
             => /\ pc'[p] = "getconn"
                /\ p \notin held'
                /\ res'[p].create = "none"]_vars

\* ten postings are inside their transactions and the eleventh waits
PoolExhausted ==
    /\ Cardinality(held) = 10
    /\ \A p \in 1..10 : pc[p] \in {"begin", "insert", "rollback"}
    /\ pc[11] = "getconn"

\* C23: every started Payment.create eventually completes, and it completes
\* only with its transaction over: it returns in the step of the COMMIT, with
\* its row in the table, and it throws in the step of the ROLLBACK (or when no
\* connection was obtained), the tables untouched; a posting that has returned
\* or thrown has no open transaction, holds no lock and no connection.
PostingTerminates ==
    /\ \A p \in Procs : (pc[p] = "getconn") ~> (pc[p] = "done")
    /\ [](\A p \in Procs :
            res[p].create # "none"
            => /\ pc[p] = "done"
               /\ tx[p] = NoTx
               /\ p \notin held
               /\ \A c \in CustomerIds : p \notin slock[c] /\ xlock[c] # p)
    /\ [][\A p \in Procs :
             /\ (res[p].create = "none" /\ res'[p].create = "ok")
                => /\ pc[p] = "commit"
                   /\ tx[p].pay \in payments'
                   /\ tx[p].pay \notin payments
             /\ (res[p].create = "none" /\ res'[p].create = "threw")
                => /\ pc[p] \in {"rollback", "getconn"}
                   /\ UNCHANGED <<payments, outstanding_balance, schedule>>
             /\ res[p].create # "none" => res'[p].create = res[p].create]_vars

\* two postings of one customer blocked each other; one was rolled back by the
\* server and threw, the other committed and returned
DeadlockResolved ==
    \E p, q \in Procs :
        /\ pc[p] = "done" /\ res[p].create = "threw" /\ res[p].cause = "deadlock"
        /\ pc[q] = "done" /\ res[q].create = "ok"
        /\ arg[p].customer_id = arg[q].customer_id

\* C24: a schedule entry is credited at most once: a payment_schedule row that
\* is PAID never changes again (it does not return to PENDING and its
\* paid_amount stays), a row changes only from PENDING to PAID, in the step in
\* which one posting of its customer commits and by that posting's amount, and
\* two open transactions never both hold an update of the same row.
EntryCreditedOnce ==
    /\ [](\A p, q \in Procs :
            (p # q /\ tx[p].sched # 0) => tx[p].sched # tx[q].sched)
    /\ [](\A s \in SchedIds :
            IF schedule[s].status = "PAID"
            THEN \E r \in payments : /\ r.customer_id = SchedOwner(s)
                                     /\ r.payment_amount = schedule[s].paid_amount
            ELSE schedule[s].status = "PENDING" /\ schedule[s].paid_amount = 0)
    /\ [][\A s \in SchedIds :
             /\ schedule[s].status = "PAID" => schedule'[s] = schedule[s]
             /\ schedule'[s] # schedule[s]
                => /\ schedule[s].status = "PENDING"
                   /\ schedule'[s].status = "PAID"
                   /\ \E p \in Procs :
                         /\ pc[p] = "commit" /\ res'[p].create = "ok"
                         /\ arg[p].customer_id = SchedOwner(s)
                         /\ schedule'[s].paid_amount
                               = schedule[s].paid_amount + arg[p].payment_amount
                         /\ \A q \in Procs \ {p} : pc'[q] = pc[q]
                   /\ \A t \in SchedIds \ {s} : schedule'[t] = schedule[t]]_vars

\* one posting has credited an entry and committed; a second posting of the
\* same customer, still in its transaction, has credited the other entry
SecondPostingTookOtherEntry ==
    \E p, q \in Procs, s, t \in SchedIds :
        /\ p # q /\ s # t
        /\ res[p].create = "ok" /\ arg[p].customer_id = SchedOwner(s)
        /\ schedule[s] = [status |-> "PAID", paid_amount |-> arg[p].payment_amount]
        /\ pc[q] = "commit" /\ arg[q].customer_id = SchedOwner(t)
        /\ tx[q].sched = t /\ tx[q].paid = arg[q].payment_amount
        /\ schedule[t].status = "PENDING"

\* C25: every payment row created through processPayment has account_number
\* equal to the account_number of the customer whose id is its customer_id,
\* and so the rows the history finds for an account (WHERE p.account_number =
\* ?) are the rows the statistics find for its customer (WHERE customer_id =
\* ?).
DenormalizedAccountNumber ==
    /\ \A r \in payments :
          /\ r.customer_id \in CustomerIds
          /\ r.account_number = account_number(r.customer_id)
    /\ \A c \in CustomerIds :
          {r \in payments : Collate(r.account_number) = Collate(account_number(c))}
              = {r \in payments : r.customer_id = c}

\* C26: for every integer ?page= and ?limit= (zero and negative included) GET
\* /api/payments computes a limit in 1..100 and an offset >= 0 and reports
\* totalPages >= 0.
SanePagination ==
    \A p \in Procs :
        (req[p].kind = "list" /\ pc[p] = "done" /\ res[p].status = 200)
        => /\ res[p].pagination.limit \in 1..100
           /\ (res[p].pagination.page - 1) * res[p].pagination.limit >= 0
           /\ res[p].pagination.totalPages >= 0

\* C27: with no posting in progress, the total of Payment.countByAccountNumber
\* is the number of rows of all pages of Payment.findByAccountNumber put
\* together, and both are about the account's payments with status SUCCESS or
\* FAILED only: the total is their number, and every row of every page is one
\* of them (no PENDING or REVERSED row, no row of another account).
ListAndCountAgree ==
    \A p \in Procs :
        (pc[p] = "done" /\ res[p].counted /\ res[p].found)
        => /\ res[p].pagination.total = Len(res[p].data)
           /\ res[p].pagination.total
                = Cardinality({r \in payments :
                                 /\ r.account_number = req[p].account_number
                                 /\ r.status \in {"SUCCESS", "FAILED"}})
           /\ \A i \in 1..Len(res[p].data) :
                 /\ res[p].data[i] \in payments
                 /\ res[p].data[i].account_number = req[p].account_number
                 /\ res[p].data[i].status \in {"SUCCESS", "FAILED"}

\* an account with a SUCCESS and a FAILED payment next to a PENDING or a
\* REVERSED one was read in two pages of one row and counted as 2
TwoPagesOfOne ==
    \E p \in Procs :
        /\ pc[p] = "done" /\ res[p].counted /\ res[p].found
        /\ req[p].limit = 1 /\ req[p].page = 3
        /\ Len(res[p].data) = 2 /\ res[p].pagination.total = 2
        /\ {res[p].data[1].status, res[p].data[2].status} = {"SUCCESS", "FAILED"}
        /\ \E r \in payments : /\ r.account_number = req[p].account_number
                               /\ r.status \in {"PENDING", "REVERSED"}

\* C28: one PaymentFormScreen has at most one processPayment request
\* outstanding: while a request has neither resolved nor rejected loading is
\* true and the submit control is disabled, and the step in which a request
\* resolves or rejects leaves loading false, so loading is false whenever no
\* request is outstanding.
SingleInFlightSubmission ==
    /\ [](Len(screen.requests) <= 1)
    /\ [](screen.requests # <<>> => (screen.loading /\ screen.disabled))
    /\ [](screen.requests = <<>> => ~screen.loading)
    /\ [][Len(screen'.requests) < Len(screen.requests)
            => (~screen'.loading /\ ~screen'.disabled)]_vars

\* after one payment went through and another submission failed, a third is
\* on its way: loading is true and the submit control disabled
SubmittingAgain ==
    /\ Len(screen.requests) = 1
    /\ screen.loading /\ screen.disabled
    /\ screen.successData # Null
    /\ screen.toast = "danger"

====
